---------------------------- MODULE Spec2Model ----------------------------
(* pulp_python/app/tasks/publish.py: the publish task, write_simple_api    *)
(* and sanitize_name.                                                       *)
(*                                                                          *)
(* A string is a sequence of one-character strings.  A path is a sequence   *)
(* of segments (the text between two "/"), each segment a string.           *)
EXTENDS Integers, Sequences, FiniteSets, TLC

VARIABLES
    store,                \* every PythonPackageContent row of the database
    snapshot,             \* the rows that belong to latest_version
    pc,                   \* position of the publish task
    publication,          \* "none", "open", "complete" or "deleted"
    published_metadata,   \* PublishedMetadata rows of the publication, in save order
    published_artifacts,  \* PublishedArtifact rows of the publication, in save order
    dirs,                 \* directories of the working directory, in creation order
    files,                \* open(..., 'w') events of the working directory, in order
    index_names,          \* write_simple_api: index_names
    i,                    \* position of the for loop of line 107 in index_names
    pairs,                \* (package, content_artifact) pairs of lines 115-117, in iteration order
    k,                    \* position of the loops of lines 115-117 in pairs
    package_detail_data,  \* write_simple_api: package_detail_data
    err,                  \* the exception in flight, "none" without one
    err_at,               \* where err was raised: [line, index]
    arg,                  \* sanitize_name: the argument of the call
    result,               \* sanitize_name: the value returned
    again,                \* sanitize_name applied to result
    san_pc                \* position of the sanitize_name caller

vars == <<store, snapshot, pc, publication, published_metadata, published_artifacts,
          dirs, files, index_names, i, pairs, k, package_detail_data, err, err_at,
          arg, result, again, san_pc>>

publish_vars == <<store, snapshot, pc, publication, published_metadata,
                  published_artifacts, dirs, files, index_names, i, pairs, k,
                  package_detail_data, err, err_at>>

san_vars == <<arg, result, again, san_pc>>

-----------------------------------------------------------------------------
(* Bounds *)

\* longest argument given to sanitize_name in SpecSanitize
MaxLen == 3

\* most PythonPackageContent rows in the database
MaxStore == 3

-----------------------------------------------------------------------------
(* Characters *)

UpperCase == {"A", "B"}
LowerCase == {"a", "b"}
Digit == {"0"}
Punctuation == {"-", "_", "."}
Alphabet == UpperCase \cup LowerCase \cup Digit \cup Punctuation

\* the code point of a character
Ord(c) ==
    CASE c = "-" -> 45
      [] c = "." -> 46
      [] c = "0" -> 48
      [] c = "A" -> 65
      [] c = "B" -> 66
      [] c = "_" -> 95
      [] c = "a" -> 97
      [] c = "b" -> 98

\* str.lower() on one character
lower_char(c) ==
    CASE c = "A" -> "a"
      [] c = "B" -> "b"
      [] OTHER -> c

\* str.lower()
lower(s) == [n \in 1..Len(s) |-> lower_char(s[n])]

\* the character class [^A-Z0-9] : the class of line 163 without a-z
not_upper_or_digit(c) == c \notin UpperCase \cup Digit

\* the character class [^A-Za-z0-9]
non_alnum(c) == c \notin UpperCase \cup LowerCase \cup Digit

\* s without its longest prefix of characters of the class
RECURSIVE skip_run(_)
skip_run(s) ==
    IF s # <<>> /\ non_alnum(Head(s)) THEN skip_run(Tail(s)) ELSE s

\* re.sub('[^A-Za-z0-9]+', '-', s): every maximal run of the class becomes one hyphen
RECURSIVE re_sub(_)
re_sub(s) ==
    IF s = <<>> THEN <<>>
    ELSE IF non_alnum(Head(s)) THEN <<"-">> \o re_sub(skip_run(Tail(s)))
    ELSE <<Head(s)>> \o re_sub(Tail(s))

\* sanitize_name without .lower()
sanitize_name_no_lower(name) == re_sub(name)

\* sanitize_name, line 163
sanitize_name(name) == lower(re_sub(name))

\* all strings of at most n characters
RECURSIVE Strings(_)
Strings(n) ==
    IF n = 0 THEN {<<>>}
    ELSE Strings(n - 1) \cup {<<c>> \o s : c \in Alphabet, s \in {t \in Strings(n - 1) : Len(t) = n - 1}}

-----------------------------------------------------------------------------
(* The database rows *)

\* a ContentArtifact row
ContentArtifact(pk, relative_path, md5) ==
    [pk |-> pk, relative_path |-> relative_path, md5 |-> md5]

\* the PythonPackageContent rows the model draws the database from
Content ==
    { [pk |-> 1, name |-> <<"A">>, filename |-> <<"A-1.whl">>,
       content_artifacts |-> {ContentArtifact(11, << <<"A-1.whl">> >>, "md5-11")}],
      [pk |-> 2, name |-> <<"A">>, filename |-> <<"A-2.tar">>,
       content_artifacts |-> {ContentArtifact(21, << <<"A-2.tar">> >>, "md5-21"),
                              ContentArtifact(22, << <<"A-2.tar.asc">> >>, "md5-22")}],
      [pk |-> 3, name |-> <<"a">>, filename |-> <<"a-1.whl">>,
       content_artifacts |-> {ContentArtifact(31, << <<"a-1.whl">> >>, "md5-31")}],
      [pk |-> 4, name |-> <<"_", ".">>, filename |-> <<"x-1.whl">>,
       content_artifacts |-> {}],
      [pk |-> 5, name |-> <<>>, filename |-> <<"e-1.whl">>,
       content_artifacts |-> {ContentArtifact(51, << <<"e-1.whl">> >>, "md5-51")}],
      [pk |-> 6, name |-> <<"b", "_", "0">>, filename |-> <<"b_0-1.whl">>,
       content_artifacts |-> {ContentArtifact(61, << <<"packages">>, <<"b_0-1.whl">> >>, "md5-61")}] }

\* PythonPackageContent.objects : every row of the table (lines 86 and 111)
PythonPackageContent_objects == store

Range(s) == {s[n] : n \in 1..Len(s)}

\* the orders a set can be iterated in
Orders(S) ==
    {f \in [1..Cardinality(S) -> S] : \A m, n \in 1..Cardinality(S) : f[m] = f[n] => m = n}

\* s < t on strings, by code point
RECURSIVE str_less(_, _)
str_less(s, t) ==
    IF t = <<>> THEN FALSE
    ELSE IF s = <<>> THEN TRUE
    ELSE IF Ord(Head(s)) # Ord(Head(t)) THEN Ord(Head(s)) < Ord(Head(t))
    ELSE str_less(Tail(s), Tail(t))

\* the strings of S in ascending order
RECURSIVE ascending(_)
ascending(S) ==
    IF S = {} THEN <<>>
    ELSE LET m == CHOOSE x \in S : \A y \in S \ {x} : str_less(x, y)
         IN  <<m>> \o ascending(S \ {m})

\* the strings of S in descending order
RECURSIVE descending(_)
descending(S) ==
    IF S = {} THEN <<>>
    ELSE LET m == CHOOSE x \in S : \A y \in S \ {x} : str_less(y, x)
         IN  <<m>> \o descending(S \ {m})

\* the query of lines 86-87 with the order reversed
project_names_descending(rows) == descending({p.name : p \in rows})

\* .order_by('name').values_list('name', flat=True).distinct(), lines 86-87
project_names(rows) == ascending({p.name : p \in rows})

\* .filter(name=name), line 111
filter_name(rows, name) == {p \in rows : p.name = name}

\* contentartifact_set reduced to one row of it
artifact_set_first(package) ==
    IF package.content_artifacts = {} THEN {}
    ELSE {CHOOSE ca \in package.content_artifacts :
              \A other \in package.content_artifacts : ca.pk <= other.pk}

\* package.contentartifact_set.all(), line 116
artifact_set(package) == package.content_artifacts

\* the pairs of the loops of lines 115-117, packages in order po, the artifacts of
\* package p in order co[p]
RECURSIVE flatten(_, _)
flatten(po, co) ==
    IF po = <<>> THEN <<>>
    ELSE [n \in 1..Len(co[Head(po)]) |->
              [package |-> Head(po), content_artifact |-> co[Head(po)][n]]]
         \o flatten(Tail(po), co)

\* neither queryset is ordered: every order the database may answer in
iteration_orders(packages) ==
    LET all == UNION {Orders(artifact_set(p)) : p \in packages}
    IN  {flatten(po, co) :
            po \in Orders(packages),
            co \in {f \in [packages -> all] : \A p \in packages : f[p] \in Orders(artifact_set(p))}}

-----------------------------------------------------------------------------
(* Paths and the working directory *)

SIMPLE == <<"simple">>
INDEX_HTML == <<"index.html">>
DOTDOT == <<"..">>

\* index_path, line 92
index_path == <<SIMPLE, INDEX_HTML>>

\* 'simple/{}'.format(canonical_name), line 108
project_dir(canonical_name) == <<SIMPLE, canonical_name>>

\* '{project_dir}/index.html'.format(...), line 128
metadata_relative_path(canonical_name) == project_dir(canonical_name) \o <<INDEX_HTML>>

\* the file system's reading of a path: an empty segment ("simple/", "simple//x") names nothing
normpath(path) == SelectSeq(path, LAMBDA seg : seg # <<>>)

\* os.mkdir(path, exist_ok=True): an existing directory is no error
path_exists_ignored(path) == FALSE

\* whether os.mkdir(path) finds the path taken, lines 85 and 109
path_exists(path) ==
    \/ normpath(path) \in Range(dirs)
    \/ \E n \in 1..Len(files) : files[n].path = normpath(path)

\* the content of the file at path: what the last open(path, 'w') left
file_content(path) ==
    LET hits == {n \in 1..Len(files) : files[n].path = normpath(path)}
        last == CHOOSE n \in hits : \A m \in hits : m <= n
    IN  files[last].content

\* a file opened for writing and left empty by a failure before the write
EmptyFile == [page |-> "empty", heading |-> <<>>, links |-> <<>>]

-----------------------------------------------------------------------------
(* The templates *)

\* the index template with its for loop over a variable the context does not hold:
\* the loop renders nothing
render_index_no_projects(projects) ==
    [page |-> "simple_index", heading |-> <<>>, links |-> <<>>]

\* Template(simple_index_template).render(...), lines 17-29 and 94-98
render_index(projects) ==
    [page |-> "simple_index",
     heading |-> <<>>,
     links |-> [n \in 1..Len(projects) |->
                   [href |-> <<projects[n][2]>>, fragment |-> "", text |-> projects[n][1]]]]

\* Template(simple_detail_template).render(...), lines 32-45 and 131-136
render_detail(project_name, project_packages) ==
    [page |-> "simple_detail",
     heading |-> project_name,
     links |-> [n \in 1..Len(project_packages) |->
                   [href |-> project_packages[n][2],
                    fragment |-> project_packages[n][3],
                    text |-> project_packages[n][1]]]]

\* the row of line 126 for one (package, content_artifact) pair, lines 124-126
detail_row(package, content_artifact) ==
    <<package.filename, <<DOTDOT, DOTDOT, package.filename>>, content_artifact.md5>>

-----------------------------------------------------------------------------
(* The publish task *)

NoWhere == [line |-> 0, index |-> 0]

\* the exceptions the environment can raise: open(), render() and write() (OSError
\* stands for all three), and Model.save()
OSError == "OSError"
DatabaseError == "DatabaseError"
FileExistsError == "FileExistsError"
StorageErrors == {OSError, DatabaseError}

Init ==
    /\ store \in {S \in SUBSET Content : Cardinality(S) <= MaxStore}
    /\ snapshot \in SUBSET store
    /\ pc = "start"
    /\ publication = "none"
    /\ published_metadata = <<>>
    /\ published_artifacts = <<>>
    /\ dirs = <<>>
    /\ files = <<>>
    /\ index_names = <<>>
    /\ i = 1
    /\ pairs = <<>>
    /\ k = 1
    /\ package_detail_data = <<>>
    /\ err = "none"
    /\ err_at = NoWhere
    /\ arg = <<>>
    /\ result = <<>>
    /\ again = <<>>
    /\ san_pc = "idle"

\* an exception caught and dropped inside write_simple_api
Swallow(exception, line, index) ==
    /\ err' = "none"
    /\ err_at' = [line |-> line, index |-> index]
    /\ pc' = "exit_publication"

\* an exception raised inside write_simple_api leaves it and the with block of
\* line 68 with the exception in flight: nothing in lines 67-143 catches it
Raise(exception, line, index) ==
    /\ err' = exception
    /\ err_at' = [line |-> line, index |-> index]
    /\ pc' = "exit_publication"

\* lines 57-68: the working directory is entered and Publication.create opens the
\* publication on latest_version
Publish ==
    /\ pc = "start"
    /\ publication' = "open"
    /\ pc' = "mkdir_simple"
    /\ UNCHANGED <<store, snapshot, published_metadata, published_artifacts, dirs, files,
                   index_names, i, pairs, k, package_detail_data, err, err_at, san_vars>>

\* line 85
MkdirSimple ==
    /\ pc = "mkdir_simple"
    /\ IF path_exists(<<SIMPLE>>)
       THEN /\ Raise(FileExistsError, 85, 0)
            /\ UNCHANGED dirs
       ELSE /\ dirs' = Append(dirs, normpath(<<SIMPLE>>))
            /\ pc' = "query"
            /\ UNCHANGED <<err, err_at>>
    /\ UNCHANGED <<store, snapshot, publication, published_metadata, published_artifacts,
                   files, index_names, i, pairs, k, package_detail_data, san_vars>>

\* lines 86-89
QueryNames ==
    /\ pc = "query"
    /\ LET names == project_names(PythonPackageContent_objects)
       IN  index_names' = [n \in 1..Len(names) |-> <<names[n], sanitize_name(names[n])>>]
    /\ pc' = "write_index"
    /\ UNCHANGED <<store, snapshot, publication, published_metadata, published_artifacts,
                   dirs, files, i, pairs, k, package_detail_data, err, err_at, san_vars>>

\* lines 92-98: the file is opened (created, truncated), then rendered and written;
\* when the rendering or the write fails the file is left empty
WriteIndex ==
    /\ pc = "write_index"
    /\ \/ /\ files' = Append(files, [path |-> normpath(index_path),
                                     content |-> render_index(index_names)])
          /\ pc' = "save_index"
          /\ UNCHANGED <<err, err_at>>
       \/ /\ files' = Append(files, [path |-> normpath(index_path), content |-> EmptyFile])
          /\ Raise(OSError, 98, 0)
    /\ UNCHANGED <<store, snapshot, publication, published_metadata, published_artifacts,
                   dirs, index_names, i, pairs, k, package_detail_data, san_vars>>

\* lines 100-105
SaveIndexMetadata ==
    /\ pc = "save_index"
    /\ \/ /\ published_metadata' = Append(published_metadata,
                [relative_path |-> index_path, file |-> file_content(index_path)])
          /\ pc' = "loop"
          /\ UNCHANGED <<err, err_at>>
       \/ /\ Raise(DatabaseError, 105, 0)
          /\ UNCHANGED published_metadata
    /\ UNCHANGED <<store, snapshot, publication, published_artifacts, dirs, files,
                   index_names, i, pairs, k, package_detail_data, san_vars>>

\* lines 107-113: the next (name, canonical_name), its directory, its packages
MkdirProject ==
    /\ pc = "loop"
    /\ i <= Len(index_names)
    /\ LET name == index_names[i][1]
           canonical_name == index_names[i][2]
       IN  IF path_exists(project_dir(canonical_name))
           THEN /\ Raise(FileExistsError, 109, i)
                /\ UNCHANGED <<dirs, pairs, k, package_detail_data>>
           ELSE /\ dirs' = Append(dirs, normpath(project_dir(canonical_name)))
                /\ pairs' \in iteration_orders(filter_name(PythonPackageContent_objects, name))
                /\ k' = 1
                /\ package_detail_data' = <<>>
                /\ pc' = "artifacts"
                /\ UNCHANGED <<err, err_at>>
    /\ UNCHANGED <<store, snapshot, publication, published_metadata, published_artifacts,
                   files, index_names, i, san_vars>>

\* lines 115-126, once per (package, content_artifact)
SaveArtifact ==
    /\ pc = "artifacts"
    /\ k <= Len(pairs)
    /\ LET package == pairs[k].package
           content_artifact == pairs[k].content_artifact
       IN  \/ /\ published_artifacts' = Append(published_artifacts,
                    [relative_path |-> content_artifact.relative_path,
                     content_artifact |-> content_artifact.pk])
              /\ package_detail_data' =
                    Append(package_detail_data, detail_row(package, content_artifact))
              /\ k' = k + 1
              /\ UNCHANGED <<pc, err, err_at>>
           \/ /\ Raise(DatabaseError, 122, i)
              /\ UNCHANGED <<published_artifacts, package_detail_data, k>>
    /\ UNCHANGED <<store, snapshot, publication, published_metadata, dirs, files,
                   index_names, i, pairs, san_vars>>

\* lines 128-136: as for the root index, a failed rendering or write leaves the
\* file empty
WriteDetail ==
    /\ pc = "artifacts"
    /\ k > Len(pairs)
    /\ LET name == index_names[i][1]
           path == normpath(metadata_relative_path(index_names[i][2]))
       IN  \/ /\ files' = Append(files, [path |-> path,
                     content |-> render_detail(name, package_detail_data)])
              /\ pc' = "save_detail"
              /\ UNCHANGED <<err, err_at>>
           \/ /\ files' = Append(files, [path |-> path, content |-> EmptyFile])
              /\ Raise(OSError, 136, i)
    /\ UNCHANGED <<store, snapshot, publication, published_metadata, published_artifacts,
                   dirs, index_names, i, pairs, k, package_detail_data, san_vars>>

\* lines 138-143, and back to line 107
SaveDetailMetadata ==
    /\ pc = "save_detail"
    /\ LET path == metadata_relative_path(index_names[i][2])
       IN  \/ /\ published_metadata' = Append(published_metadata,
                    [relative_path |-> path, file |-> file_content(path)])
              /\ i' = i + 1
              /\ pc' = "loop"
              /\ UNCHANGED <<err, err_at>>
           \/ /\ Raise(DatabaseError, 143, i)
              /\ UNCHANGED <<published_metadata, i>>
    /\ UNCHANGED <<store, snapshot, publication, published_artifacts, dirs, files,
                   index_names, pairs, k, package_detail_data, san_vars>>

\* line 107 with index_names exhausted: write_simple_api returns
Return ==
    /\ pc = "loop"
    /\ i > Len(index_names)
    /\ pc' = "exit_publication"
    /\ UNCHANGED <<store, snapshot, publication, published_metadata, published_artifacts,
                   dirs, files, index_names, i, pairs, k, package_detail_data, err, err_at,
                   san_vars>>

\* the end of the with block of line 68: the publication is completed without an
\* exception, and deleted with its records with one
ExitPublication ==
    /\ pc = "exit_publication"
    /\ IF err = "none"
       THEN /\ publication' = "complete"
            /\ UNCHANGED <<published_metadata, published_artifacts>>
       ELSE /\ publication' = "deleted"
            /\ published_metadata' = <<>>
            /\ published_artifacts' = <<>>
    /\ pc' = "exit_working_directory"
    /\ UNCHANGED <<store, snapshot, dirs, files, index_names, i, pairs, k,
                   package_detail_data, err, err_at, san_vars>>

\* the end of the with block of line 67: the working directory is removed; an
\* exception in flight leaves publish, and line 71 is not reached
ExitWorkingDirectory ==
    /\ pc = "exit_working_directory"
    /\ dirs' = <<>>
    /\ files' = <<>>
    /\ pc' = IF err = "none" THEN "log" ELSE "failed"
    /\ UNCHANGED <<store, snapshot, publication, published_metadata, published_artifacts,
                   index_names, i, pairs, k, package_detail_data, err, err_at, san_vars>>

\* line 71
Log ==
    /\ pc = "log"
    /\ pc' = "done"
    /\ UNCHANGED <<store, snapshot, publication, published_metadata, published_artifacts,
                   dirs, files, index_names, i, pairs, k, package_detail_data, err, err_at,
                   san_vars>>

Next ==
    \/ Publish
    \/ MkdirSimple
    \/ QueryNames
    \/ WriteIndex
    \/ SaveIndexMetadata
    \/ MkdirProject
    \/ SaveArtifact
    \/ WriteDetail
    \/ SaveDetailMetadata
    \/ Return
    \/ ExitPublication
    \/ ExitWorkingDirectory
    \/ Log

Spec == Init /\ [][Next]_vars

-----------------------------------------------------------------------------
(* sanitize_name on its own: every string of at most MaxLen characters *)

InitSanitize ==
    /\ store = {}
    /\ snapshot = {}
    /\ pc = "idle"
    /\ publication = "none"
    /\ published_metadata = <<>>
    /\ published_artifacts = <<>>
    /\ dirs = <<>>
    /\ files = <<>>
    /\ index_names = <<>>
    /\ i = 1
    /\ pairs = <<>>
    /\ k = 1
    /\ package_detail_data = <<>>
    /\ err = "none"
    /\ err_at = NoWhere
    /\ arg \in Strings(MaxLen)
    /\ result = <<>>
    /\ again = <<>>
    /\ san_pc = "call"

\* sanitize_name(arg)
Sanitize ==
    /\ san_pc = "call"
    /\ result' = sanitize_name(arg)
    /\ san_pc' = "returned"
    /\ UNCHANGED <<arg, again, publish_vars>>

\* sanitize_name(sanitize_name(arg))
SanitizeAgain ==
    /\ san_pc = "returned"
    /\ again' = sanitize_name(result)
    /\ san_pc' = "twice"
    /\ UNCHANGED <<arg, result, publish_vars>>

NextSanitize ==
    \/ Sanitize
    \/ SanitizeAgain

SpecSanitize == InitSanitize /\ [][NextSanitize]_vars

-----------------------------------------------------------------------------
(* What the claims speak of *)

\* write_simple_api has returned without an exception; the working directory still holds
\* what it wrote
BuildReturned == pc = "exit_publication" /\ err = "none"

\* publish is over, one way or the other
PublishOver == pc \in {"failed", "log", "done"}

\* the characters sanitize_name may return
CanonicalChars == {"a", "b", "0", "-"}

\* the letters and digits of the alphabet
AlnumChars == {"A", "B", "a", "b", "0"}

\* how many elements of sequence s satisfy Test
Count(s, Test(_)) == Cardinality({n \in 1..Len(s) : Test(s[n])})

\* the position in index_names of the first name whose canonical name an earlier
\* name has already taken; 0 without one
FirstClash ==
    LET clashes == {n \in 1..Len(index_names) :
                       \E m \in 1..(n - 1) : index_names[m][2] = index_names[n][2]}
    IN  IF clashes = {} THEN 0
        ELSE CHOOSE n \in clashes : \A m \in clashes : n <= m

\* a link of a page, followed from the page at path page_path
RECURSIVE walk(_, _)
walk(base, href) ==
    IF href = <<>> THEN base
    ELSE IF Head(href) = DOTDOT THEN walk(SubSeq(base, 1, Len(base) - 1), Tail(href))
    ELSE walk(Append(base, Head(href)), Tail(href))

resolve(page_path, href) == walk(SubSeq(page_path, 1, Len(page_path) - 1), href)

\* the number of links of the pages of the files from position n on
RECURSIVE links_from(_)
links_from(n) ==
    IF n > Len(files) THEN 0 ELSE Len(files[n].content.links) + links_from(n + 1)

-----------------------------------------------------------------------------
(* C1 *)

\* C1: the Publication is complete (committed) only when write_simple_api ran to its
\* end without an exception: the index and every project were written and registered.
\* With an exception raised anywhere in write_simple_api the Publication is never
\* complete, and once the with block is left it is deleted and none of its
\* PublishedMetadata or PublishedArtifact records is left.
C1_CommitOnlyAfterFullBuild ==
    /\ publication = "complete" =>
          /\ err = "none"
          /\ index_names = [n \in 1..Len(project_names(store)) |->
                               <<project_names(store)[n], sanitize_name(project_names(store)[n])>>]
          /\ i = Len(index_names) + 1
          /\ Len(published_metadata) = Len(index_names) + 1
    /\ err # "none" => publication # "complete"
    /\ err # "none" /\ pc \in {"exit_working_directory", "failed"} =>
          /\ publication = "deleted"
          /\ published_metadata = <<>>
          /\ published_artifacts = <<>>

\* a record save fails at the second project, after records of the first were
\* registered, and publish has ended
C1_Witness ==
    /\ pc = "failed"
    /\ err = DatabaseError
    /\ err_at = [line |-> 143, index |-> 2]
    /\ publication = "deleted"

-----------------------------------------------------------------------------
(* C2 *)

\* C2 as claimed: when two names of index_names have the same canonical name and no
\* storage error interferes, publish ends with FileExistsError raised by the mkdir of
\* line 109 for the second of them, and nothing is committed.  (Stated for a database
\* that holds the packages of the snapshot and no other.)
C2_FailsAtSecondDirectory ==
    store = snapshot /\ FirstClash # 0 /\ PublishOver /\ err \notin StorageErrors =>
        /\ err = FileExistsError
        /\ err_at = [line |-> 109, index |-> FirstClash]
        /\ publication = "deleted"

\* C2 amended: when two names of index_names have the same canonical name, the
\* Publication is never complete, no file is written twice, no directory is made for
\* the second of the two names or any later one, and publish ends with the Publication
\* deleted and without records; without a storage error, it ends with FileExistsError
\* raised by the mkdir of line 109, either for the second of the two names or, before
\* it, for an empty name, whose directory simple/ is the root directory.
C2_ClashNeverPublished ==
    FirstClash # 0 =>
        /\ publication # "complete"
        /\ \A m, n \in 1..Len(files) : files[m].path = files[n].path => m = n
        /\ Len(dirs) <= FirstClash
        /\ i <= FirstClash
        /\ PublishOver =>
              /\ publication = "deleted"
              /\ published_metadata = <<>>
              /\ published_artifacts = <<>>
        /\ PublishOver /\ err \notin StorageErrors =>
              /\ err = FileExistsError
              /\ err_at.line = 109
              /\ \/ err_at.index = FirstClash
                 \/ /\ err_at.index < FirstClash
                    /\ index_names[err_at.index][2] = <<>>

\* names A, a and b_0: the mkdir for a fails, b_0 is never reached
C2_Witness ==
    /\ pc = "failed"
    /\ FirstClash = 2
    /\ Len(index_names) = 3
    /\ err = FileExistsError
    /\ err_at = [line |-> 109, index |-> 2]
    /\ publication = "deleted"

-----------------------------------------------------------------------------
(* C3 *)

-----------------------------------------------------------------------------
(* C4 *)

\* C4: the names traversed, the project directories and the PublishedArtifact records
\* come from packages of the snapshot only.
C4_OnlyTheSnapshot ==
    /\ \A n \in 1..Len(index_names) : index_names[n][1] \in {p.name : p \in snapshot}
    /\ \A n \in 2..Len(dirs) :
          dirs[n] \in {normpath(project_dir(sanitize_name(p.name))) : p \in snapshot}
    /\ \A n \in 1..Len(published_artifacts) :
          published_artifacts[n].content_artifact \in
              UNION {{ca.pk : ca \in p.content_artifacts} : p \in snapshot}

-----------------------------------------------------------------------------
(* C5 *)

\* C5 as claimed: the value sanitize_name returns holds only lowercase letters, digits
\* and hyphens, no two hyphens in a row, and begins or ends with a hyphen only when
\* the argument holds no letter or digit at all.
C5_NoOuterHyphen ==
    san_pc # "call" =>
        /\ \A n \in 1..Len(result) : result[n] \in CanonicalChars
        /\ \A n \in 1..(Len(result) - 1) : ~(result[n] = "-" /\ result[n + 1] = "-")
        /\ result # <<>> /\ (result[1] = "-" \/ result[Len(result)] = "-") =>
              \A n \in 1..Len(arg) : arg[n] \notin AlnumChars

\* C5 amended: the value sanitize_name returns holds only lowercase letters, digits
\* and hyphens, no two hyphens in a row, and begins (ends) with a hyphen exactly when
\* the argument begins (ends) with a character that is no letter or digit.
C5_CanonicalForm ==
    san_pc # "call" =>
        /\ \A n \in 1..Len(result) : result[n] \in CanonicalChars
        /\ \A n \in 1..(Len(result) - 1) : ~(result[n] = "-" /\ result[n + 1] = "-")
        /\ (result = <<>>) <=> (arg = <<>>)
        /\ arg # <<>> =>
              /\ (result[1] = "-") <=> (arg[1] \notin AlnumChars)
              /\ (result[Len(result)] = "-") <=> (arg[Len(arg)] \notin AlnumChars)

\* "_A." has become "-a-"
C5_Witness ==
    /\ san_pc = "returned"
    /\ arg = <<"_", "A", ".">>
    /\ result = <<"-", "a", "-">>

-----------------------------------------------------------------------------
(* C6 *)

\* C6: sanitize_name returns a string for every argument, the empty string included,
\* and returns its own result unchanged.
C6_Idempotent ==
    /\ san_pc # "call" =>
          /\ Len(result) <= Len(arg)
          /\ \A n \in 1..Len(result) : result[n] \in Alphabet
    /\ san_pc = "twice" => again = result

\* "Ab_" has become "ab-", and "ab-" stays "ab-"
C6_Witness ==
    /\ san_pc = "twice"
    /\ arg = <<"A", "b", "_">>
    /\ result = <<"a", "b", "-">>
    /\ again = <<"a", "b", "-">>

\* the empty string has become the empty string, twice
C6_WitnessEmpty ==
    /\ san_pc = "twice"
    /\ arg = <<>>
    /\ again = <<>>

-----------------------------------------------------------------------------
(* C7 *)

\* C7: with no package in the snapshot and no storage error, write_simple_api returns
\* having made simple/ and no other directory, written simple/index.html with no
\* project in it, registered one PublishedMetadata record, for simple/index.html, and
\* no PublishedArtifact record; and publish ends with the Publication complete.
C7_EmptySnapshot ==
    /\ snapshot = {} /\ pc = "exit_publication" /\ err \notin StorageErrors =>
          /\ err = "none"
          /\ dirs = <<<<SIMPLE>>>>
          /\ files = <<[path |-> index_path, content |-> render_index(<<>>)]>>
          /\ published_metadata =
                <<[relative_path |-> index_path, file |-> render_index(<<>>)]>>
          /\ published_artifacts = <<>>
    /\ snapshot = {} /\ PublishOver /\ err \notin StorageErrors =>
          /\ publication = "complete"
          /\ Len(published_metadata) = 1
          /\ published_artifacts = <<>>

-----------------------------------------------------------------------------
(* C8 *)

\* C8: index_names holds the names in strictly ascending order, so none twice; the root
\* index lists them in that order; the project directories and the detail pages are
\* made in that order, one after the other, so that those made are at every moment a
\* prefix of index_names; and none is made before the root index is written and its
\* PublishedMetadata record registered.
C8_SortedPrefix ==
    /\ \A m, n \in 1..Len(index_names) :
          m < n => str_less(index_names[m][1], index_names[n][1])
    /\ Len(files) >= 1 /\ files[1].content # EmptyFile =>
          /\ files[1].path = index_path
          /\ Len(files[1].content.links) = Len(index_names)
          /\ \A n \in 1..Len(index_names) :
                files[1].content.links[n].text = index_names[n][1]
    /\ Len(dirs) <= Len(index_names) + 1
    /\ \A n \in 2..Len(dirs) : dirs[n] = normpath(project_dir(index_names[n - 1][2]))
    /\ Len(files) <= Len(dirs)
    /\ \A n \in 2..Len(files) :
          files[n].path = normpath(metadata_relative_path(index_names[n - 1][2]))
    /\ Len(dirs) >= 2 =>
          /\ files[1] = [path |-> index_path, content |-> render_index(index_names)]
          /\ publication = "open" =>
                published_metadata[1] =
                    [relative_path |-> index_path, file |-> render_index(index_names)]

\* of three names, the first project is written and the second has failed
C8_Witness ==
    /\ pc = "exit_publication"
    /\ err = DatabaseError
    /\ err_at.index = 2
    /\ Len(index_names) = 3
    /\ Len(dirs) = 3
    /\ Len(files) = 2

-----------------------------------------------------------------------------
(* C9 *)

\* C9: a detail page holds one link for each (package, content_artifact) pair of the
\* packages with exactly the project's name, in the order they were iterated in, with
\* text package.filename, href ../../{package.filename} and the artifact's md5; one
\* PublishedArtifact record is registered for each pair, with the artifact's
\* relative_path; and when write_simple_api has returned there are as many
\* PublishedArtifact records as links on detail pages.
C9_OneLinkPerArtifact ==
    /\ pc = "save_detail" =>
          LET name == index_names[i][1]
              page == files[Len(files)]
              first == Len(published_artifacts) - Len(pairs)
              wanted == UNION {{[package |-> p, content_artifact |-> ca] :
                                   ca \in p.content_artifacts} :
                               p \in {q \in store : q.name = name}}
          IN  /\ page.path = normpath(metadata_relative_path(index_names[i][2]))
              /\ page.content.heading = name
              /\ Range(pairs) = wanted
              /\ \A m, n \in 1..Len(pairs) : pairs[m] = pairs[n] => m = n
              /\ Len(page.content.links) = Len(pairs)
              /\ first >= 0
              /\ \A n \in 1..Len(pairs) :
                    /\ page.content.links[n] =
                          [href |-> <<DOTDOT, DOTDOT, pairs[n].package.filename>>,
                           fragment |-> pairs[n].content_artifact.md5,
                           text |-> pairs[n].package.filename]
                    /\ published_artifacts[first + n] =
                          [relative_path |-> pairs[n].content_artifact.relative_path,
                           content_artifact |-> pairs[n].content_artifact.pk]
    /\ BuildReturned => Len(published_artifacts) = links_from(2)

\* the detail page of A, of two packages and three artifacts, has been written
C9_Witness ==
    /\ pc = "save_detail"
    /\ index_names[i][1] = <<"A">>
    /\ Len(pairs) = 3
    /\ Len(files[Len(files)].content.links) = 3

-----------------------------------------------------------------------------
(* C10 *)

\* C10: when write_simple_api has returned, every link of every detail page, followed
\* from that page, is the relative_path of a PublishedArtifact record of the
\* Publication.
C10_LinksAreServed ==
    BuildReturned =>
        \A n \in 2..Len(files) :
            \A l \in 1..Len(files[n].content.links) :
                resolve(files[n].path, files[n].content.links[l].href) \in
                    {published_artifacts[m].relative_path : m \in 1..Len(published_artifacts)}

=============================================================================
